---------------------------- MODULE Spec2Model ----------------------------
(***************************************************************************)
(* A model of the Khmer word segmenter (package khmer_segmenter):         *)
(*   normalization.py  KhmerNormalizer                                     *)
(*   viterbi.py        KhmerSegmenter (dictionary, cost model, Viterbi DP, *)
(*                     unknown-collapser)                                  *)
(*   rule_engine.py    RuleBasedEngine                                     *)
(*                                                                         *)
(* Text is a sequence of Unicode code points (Python str).  Costs are      *)
(* fixed-point numbers in units of 0.1 (the smallest cost constant of the  *)
(* code is the separator cost 0.1); -log10 is rounded down to that unit.   *)
(***************************************************************************)
EXTENDS Integers, Sequences, FiniteSets, TLC

(***************************************************************************)
(* Code points named by the source.                                        *)
(***************************************************************************)
COENG == 6098
\* U+17D2
RO == 6042
\* U+179A
TA == 6031
\* U+178F
DA == 6026
\* U+178A
KA == 6016
\* U+1780, first consonant
OR_VOWEL == 6060
\* U+17AC, independent vowel "or"
REPEAT_MARK == 6103
\* U+17D7
VOWEL_E == 6081
\* U+17C1
VOWEL_II == 6072
\* U+17B8
VOWEL_AA == 6070
\* U+17B6
VOWEL_OE == 6078
\* U+17BE
VOWEL_AU == 6084
\* U+17C4
SIGN_NIKAHIT == 6086
\* U+17C6, first sign
ATTHACAN == 6109
\* U+17DD
RIEL == 6107
\* U+17DB
ZWNJ == 8204
\* U+200C
ZWJ == 8205
\* U+200D
ZWS == 8203
\* U+200B
DOLLAR == 36
DOT == 46
COMMA == 44
SPACE == 32
DIGIT_ZERO == 48
KHMER_DIGIT_ZERO == 6112
\* U+17E0

(***************************************************************************)
(* Sequence helpers.                                                       *)
(***************************************************************************)
Slice(s, a, b) == SubSeq(s, a + 1, b)
\* Python s[a:b] for 0 <= a <= b <= len(s)

RECURSIVE Concat(_)
Concat(ss) ==
    IF ss = << >> THEN << >> ELSE Head(ss) \o Concat(Tail(ss))
\* "".join(ss)

StartsWith(s, c) == Len(s) >= 1 /\ s[1] = c

Contains(s, c) == \E k \in 1..Len(s) : s[k] = c

ContainsPair(s, a, b) == \E k \in 1..(Len(s) - 1) : s[k] = a /\ s[k + 1] = b

Min2(a, b) == IF a <= b THEN a ELSE b

(***************************************************************************)
(* normalization.py: character classes.                                    *)
(***************************************************************************)
IsConsonant(c) == 6016 <= c /\ c <= 6050
\* 0x1780..0x17A2
IsIndepVowel(c) == 6051 <= c /\ c <= 6067
\* 0x17A3..0x17B3
IsBase(c) == 6016 <= c /\ c <= 6067
\* 0x1780..0x17B3
IsDepVowel(c) == 6070 <= c /\ c <= 6085
\* 0x17B6..0x17C5
IsNormSign(c) == (6086 <= c /\ c <= 6099) \/ c = ATTHACAN
\* range(0x17C6, 0x17D4) or 0x17DD

CharType(c) ==
    IF IsConsonant(c) \/ IsIndepVowel(c) THEN "BASE"
    ELSE IF c = COENG THEN "COENG"
    ELSE IF IsDepVowel(c) THEN "VOWEL"
    ELSE IF IsNormSign(c) THEN "SIGN"
    ELSE "OTHER"

(***************************************************************************)
(* normalization.py: _sort_cluster.  A part is a sequence of one or two    *)
(* code points; keys are doubled so that 1.5 is the integer 3.             *)
(***************************************************************************)
SortKeyStrayCoengLast(item) ==
    IF StartsWith(item, COENG) /\ Len(item) = 2
    THEN IF item[2] = RO THEN 4 ELSE 2
    ELSE IF IsDepVowel(item[1]) THEN 6
    ELSE IF IsNormSign(item[1]) THEN 8
    ELSE 10
\* a key that ranks a COENG without subscript with "other" (5)

SortKey(item) ==
    IF StartsWith(item, COENG)
    THEN IF Len(item) = 2
         THEN IF item[2] = RO THEN 4 ELSE 2
         ELSE 3
    ELSE IF IsDepVowel(item[1]) THEN 6
    ELSE IF IsNormSign(item[1]) THEN 8
    ELSE 10

RECURSIVE InsertStable(_, _)
InsertStable(sorted, item) ==
    IF sorted = << >> THEN << item >>
    ELSE IF SortKey(Head(sorted)) <= SortKey(item)
         THEN << Head(sorted) >> \o InsertStable(Tail(sorted), item)
         ELSE << item >> \o sorted
\* position of item in a stable sort: after every element whose key is <=

RECURSIVE StableSort(_)
StableSort(items) ==
    IF items = << >> THEN << >>
    ELSE InsertStable(StableSort(SubSeq(items, 1, Len(items) - 1)),
                      items[Len(items)])

SortCluster(parts) ==
    IF parts = << >> THEN << >>
    ELSE Head(parts) \o Concat(StableSort(Tail(parts)))

(***************************************************************************)
(* normalization.py: normalize.                                            *)
(***************************************************************************)
RECURSIVE ReplacePair(_, _, _, _)
ReplacePair(t, a, b, r) ==
    IF Len(t) < 2 THEN t
    ELSE IF t[1] = a /\ t[2] = b
         THEN << r >> \o ReplacePair(SubSeq(t, 3, Len(t)), a, b, r)
         ELSE << t[1] >> \o ReplacePair(Tail(t), a, b, r)
\* str.replace of a two-code-point pattern: non-overlapping, left to right

FixComposites(t) ==
    ReplacePair(ReplacePair(t, VOWEL_E, VOWEL_II, VOWEL_OE),
                VOWEL_E, VOWEL_AA, VOWEL_AU)

FlushCluster(result, cluster) ==
    IF cluster = << >> THEN result ELSE result \o SortCluster(cluster)

RECURSIVE ClusterLoop(_, _, _, _)
ClusterLoop(t, i, result, cluster) ==
    IF i >= Len(t) THEN FlushCluster(result, cluster)
    ELSE LET ch == t[i + 1]
             ctype == CharType(ch)
         IN  IF ctype = "BASE"
             THEN ClusterLoop(t, i + 1, FlushCluster(result, cluster), << << ch >> >>)
             ELSE IF ctype = "COENG"
             THEN IF i + 1 < Len(t) /\ CharType(t[i + 2]) = "BASE"
                  THEN ClusterLoop(t, i + 2, result, Append(cluster, << ch, t[i + 2] >>))
                  ELSE ClusterLoop(t, i + 1, result, Append(cluster, << ch >>))
             ELSE IF ctype \in {"VOWEL", "SIGN"}
             THEN IF cluster # << >>
                  THEN ClusterLoop(t, i + 1, result, Append(cluster, << ch >>))
                  ELSE ClusterLoop(t, i + 1, result \o << ch >>, cluster)
             ELSE ClusterLoop(t, i + 1, FlushCluster(result, cluster) \o << ch >>, << >>)

RECURSIVE ClusterSpans(_, _, _, _)
ClusterSpans(t, i, start, spans) ==
    LET flushed == IF start >= 0 THEN spans \cup {<< start, i >>} ELSE spans
    IN  IF i >= Len(t) THEN flushed
        ELSE LET ctype == CharType(t[i + 1])
             IN  IF ctype = "BASE" THEN ClusterSpans(t, i + 1, i, flushed)
                 ELSE IF ctype = "COENG"
                 THEN ClusterSpans(t,
                          IF i + 1 < Len(t) /\ CharType(t[i + 2]) = "BASE"
                          THEN i + 2 ELSE i + 1,
                          IF start >= 0 THEN start ELSE i, spans)
                 ELSE IF ctype \in {"VOWEL", "SIGN"}
                 THEN ClusterSpans(t, i + 1, start, spans)
                 ELSE ClusterSpans(t, i + 1, -1, flushed)
\* the loop of lines 59-105 again, keeping for every current_cluster handed to
\* _sort_cluster the offsets << first, end >> of the code points it collected;
\* start = -1 while current_cluster is empty

RECURSIVE ClusterParts(_, _, _)
ClusterParts(t, i, end) ==
    IF i >= end THEN << >>
    ELSE IF t[i + 1] = COENG /\ i + 1 < Len(t) /\ CharType(t[i + 2]) = "BASE"
         THEN << << t[i + 1], t[i + 2] >> >> \o ClusterParts(t, i + 2, end)
         ELSE << << t[i + 1] >> >> \o ClusterParts(t, i + 1, end)
\* the items appended to current_cluster (lines 70, 81, 86, 90, 95) for the
\* code points at offsets i .. end-1

Normalize(t) ==
    IF t = << >> THEN << >> ELSE ClusterLoop(FixComposites(t), 0, << >>, << >>)

(***************************************************************************)
(* viterbi.py: classifier helpers.                                         *)
(***************************************************************************)
IsValidSingleBaseChar(c) == (6016 <= c /\ c <= 6050) \/ (6051 <= c /\ c <= 6067)

IsDigitChar(c) ==
    (DIGIT_ZERO <= c /\ c <= DIGIT_ZERO + 9)
    \/ (KHMER_DIGIT_ZERO <= c /\ c <= KHMER_DIGIT_ZERO + 9)
\* _is_digit on one character

IsKhmerChar(c) == (6016 <= c /\ c <= 6143) \/ (6624 <= c /\ c <= 6655)
\* 0x1780..0x17FF or 0x19E0..0x19FF

UnicodePSZ == {SPACE, DOT, COMMA, DOLLAR, 163, 165, 8364}
\* the code points of the model's alphabets whose unicodedata.category starts
\* with P, S or Z (outside U+17D4..U+17DB, which the code tests by range):
\* ' ' Zs, '.' ',' Po, '$' U+00A3 U+00A5 U+20AC Sc.  The other code points
\* used are L* (letters), N* (digits), M* (Khmer marks) or Cf (U+200B).

IsSeparatorChar(c) ==
    \/ (6100 <= c /\ c <= 6106)
    \/ c = RIEL
    \/ c \in UnicodePSZ

IsSeparator(s) == Len(s) = 1 /\ IsSeparatorChar(s[1])
\* _is_separator on a string: ord() of a string that is not one character
\* raises, and the bare except returns False

IsCurrencySymbol(c) == c \in {DOLLAR, RIEL, 8364, 163, 165}

RECURSIVE ClusterScan(_, _)
ClusterScan(t, i) ==
    IF i >= Len(t) THEN i
    ELSE LET code == t[i + 1]
         IN  IF code = COENG
             THEN IF i + 1 < Len(t) /\ IsConsonant(t[i + 2])
                  THEN ClusterScan(t, i + 2)
                  ELSE i
             ELSE IF (6070 <= code /\ code <= 6097) \/ code = 6099 \/ code = ATTHACAN
                  THEN ClusterScan(t, i + 1)
                  ELSE i
\* the while loop of _get_khmer_cluster_length; returns the final i

KhmerClusterLengthZeroForNonBase(t, start) ==
    IF start >= Len(t) THEN 0
    ELSE IF ~IsBase(t[start + 1]) THEN 0
    ELSE ClusterScan(t, start + 1) - start
\* a cluster measure that gives a non-cluster start length 0 instead of 1

KhmerClusterLength(t, start) ==
    IF start >= Len(t) THEN 0
    ELSE IF ~IsBase(t[start + 1]) THEN 1
    ELSE ClusterScan(t, start + 1) - start

RECURSIVE NumberScan(_, _)
NumberScan(t, i) ==
    IF i >= Len(t) THEN i
    ELSE LET ch == t[i + 1]
         IN  IF IsDigitChar(ch) THEN NumberScan(t, i + 1)
             ELSE IF ch \in {COMMA, DOT, SPACE}
                  THEN IF i + 1 < Len(t) /\ IsDigitChar(t[i + 2])
                       THEN NumberScan(t, i + 2)
                       ELSE i
                  ELSE i

NumberLengthOneDigit(t, start) ==
    IF ~IsDigitChar(t[start + 1]) THEN 0 ELSE 1
\* a number scan that stops after the first digit

NumberLength(t, start) ==
    IF ~IsDigitChar(t[start + 1]) THEN 0
    ELSE NumberScan(t, start + 1) - start
\* _get_number_length; start < Len(t) at every call site

IsAcronymStart(t, index) ==
    IF index + 1 >= Len(t) THEN FALSE
    ELSE IF ~IsBase(t[index + 1]) THEN FALSE
    ELSE LET cl == KhmerClusterLength(t, index)
         IN  IF cl = 0 THEN FALSE
             ELSE index + cl < Len(t) /\ t[index + cl + 1] = DOT

RECURSIVE AcronymScan(_, _)
AcronymScan(t, i) ==
    IF i >= Len(t) THEN i
    ELSE IF ~IsBase(t[i + 1]) THEN i
    ELSE LET cl == KhmerClusterLength(t, i)
         IN  IF cl > 0 /\ i + cl < Len(t) /\ t[i + cl + 1] = DOT
             THEN AcronymScan(t, i + cl + 1)
             ELSE i

AcronymLength(t, start) == AcronymScan(t, start) - start

(***************************************************************************)
(* viterbi.py: _generate_variants.                                         *)
(***************************************************************************)
RECURSIVE ReplaceCoeng(_, _, _)
ReplaceCoeng(w, from, to) ==
    IF Len(w) < 2 THEN w
    ELSE IF w[1] = COENG /\ w[2] = from
         THEN << COENG, to >> \o ReplaceCoeng(SubSeq(w, 3, Len(w)), from, to)
         ELSE << w[1] >> \o ReplaceCoeng(Tail(w), from, to)
\* word.replace(COENG + from, COENG + to)

MatchRoOther(w, k) ==
    /\ k + 3 <= Len(w)
    /\ w[k] = COENG /\ w[k + 1] = RO /\ w[k + 2] = COENG /\ w[k + 3] # RO
\* p1 = (COENG RO)(COENG [^RO]) matches at 1-based position k

MatchOtherRo(w, k) ==
    /\ k + 3 <= Len(w)
    /\ w[k] = COENG /\ w[k + 1] # RO /\ w[k + 2] = COENG /\ w[k + 3] = RO
\* p2 = (COENG [^RO])(COENG RO) matches at 1-based position k

RECURSIVE SubRoOther(_)
SubRoOther(w) ==
    IF w = << >> THEN << >>
    ELSE IF MatchRoOther(w, 1)
         THEN << w[3], w[4], w[1], w[2] >> \o SubRoOther(SubSeq(w, 5, Len(w)))
         ELSE << w[1] >> \o SubRoOther(Tail(w))
\* p1.sub(r'\2\1', w)

RECURSIVE SubOtherRo(_)
SubOtherRo(w) ==
    IF w = << >> THEN << >>
    ELSE IF MatchOtherRo(w, 1)
         THEN << w[3], w[4], w[1], w[2] >> \o SubOtherRo(SubSeq(w, 5, Len(w)))
         ELSE << w[1] >> \o SubOtherRo(Tail(w))
\* p2.sub(r'\2\1', w)

TaDaVariants(word) ==
    (IF ContainsPair(word, COENG, TA) THEN {ReplaceCoeng(word, TA, DA)} ELSE {})
    \cup (IF ContainsPair(word, COENG, DA) THEN {ReplaceCoeng(word, DA, TA)} ELSE {})

RoSwaps(w) ==
    (IF \E k \in 1..Len(w) : MatchRoOther(w, k) THEN {SubRoOther(w)} ELSE {})
    \cup (IF \E k \in 1..Len(w) : MatchOtherRo(w, k) THEN {SubOtherRo(w)} ELSE {})

GenerateVariantsWithoutRoSwap(word) == TaDaVariants(word)
\* the variant generator without its Ro-swap stage

GenerateVariants(word) ==
    LET variants == TaDaVariants(word)
        base_set == {word} \cup variants
    IN  variants \cup UNION {RoSwaps(w) : w \in base_set}

(***************************************************************************)
(* viterbi.py: _load_dictionary.  The source is the sequence of the file's *)
(* lines, already stripped.                                                *)
(***************************************************************************)
RECURSIVE SplitOn(_, _)
SplitOn(w, c) ==
    IF ~Contains(w, c) THEN << w >>
    ELSE LET k == CHOOSE j \in 1..Len(w) : w[j] = c /\ \A h \in 1..(j - 1) : w[h] # c
         IN  << SubSeq(w, 1, k - 1) >> \o SplitOn(SubSeq(w, k + 1, Len(w)), c)
\* word.split(c)

MaxLength(ws) ==
    IF ws = {} THEN 0 ELSE CHOOSE m \in {Len(w) : w \in ws} : \A w \in ws : Len(w) <= m

LoadedWordsKeepsSingles(src) ==
    LET kept == {src[k] : k \in {j \in 1..Len(src) : src[j] # << >>}}
    IN  kept \cup UNION {GenerateVariants(w) : w \in kept}
\* the read loop without the length-1 test of line 41

LoadedWords(src) ==
    LET kept == {src[k] : k \in {j \in 1..Len(src) :
                     /\ src[j] # << >>
                     /\ ~(Len(src[j]) = 1 /\ ~IsValidSingleBaseChar(src[j][1]))}}
    IN  kept \cup UNION {GenerateVariants(w) : w \in kept}
\* self.words after the read loop (lines 36-53)

IsOrCompound(word, ws) ==
    /\ Contains(word, OR_VOWEL)
    /\ Len(word) > 1
    /\ IF word[1] = OR_VOWEL THEN Tail(word) \in ws
       ELSE IF word[Len(word)] = OR_VOWEL THEN SubSeq(word, 1, Len(word) - 1) \in ws
       ELSE LET parts == SplitOn(word, OR_VOWEL)
            IN  \A k \in 1..Len(parts) : parts[k] \in ws \/ parts[k] = << >>
\* lines 60-76

WordsToRemoveKeepsCoengInitial(ws) ==
    {word \in ws : IsOrCompound(word, ws) \/ Contains(word, REPEAT_MARK)}
\* the load filter without the test for a leading COENG

WordsToRemove(ws) ==
    {word \in ws : \/ IsOrCompound(word, ws)
                   \/ Contains(word, REPEAT_MARK)
                   \/ StartsWith(word, COENG)}

LoadDictionary(src) ==
    LET ws == LoadedWords(src)
        final == (ws \ WordsToRemove(ws)) \ {<< REPEAT_MARK >>}
    IN  [words |-> final, max_word_length |-> MaxLength(final)]

(***************************************************************************)
(* viterbi.py: _load_frequencies and get_word_cost.  The table is the      *)
(* sequence of the JSON object's (word, count) items in iteration order.   *)
(***************************************************************************)
MIN_FREQ_FLOOR == 5
INIT_DEFAULT_COST == 100
\* 10.0
INIT_UNKNOWN_COST == 200
\* 20.0
UNKNOWN_OFFSET == 50
\* + 5.0
Log10Thresholds ==
    << 10000, 12589, 15849, 19953, 25119, 31623, 39811, 50119, 63096, 79433 >>
\* 10000 * 10^(m/10) for m = 0..9

RECURSIVE Decades(_, _)
Decades(num, den) == IF num * 10 <= den THEN 1 + Decades(num * 10, den) ELSE 0

RECURSIVE Pow10(_)
Pow10(d) == IF d = 0 THEN 1 ELSE 10 * Pow10(d - 1)

NegLog10(num, den) ==
    LET d == Decades(num, den)
        scaled == num * Pow10(d)
        m == CHOOSE k \in 0..9 :
                 /\ scaled * Log10Thresholds[k + 1] <= den * 10000
                 /\ \A h \in (k + 1)..9 : scaled * Log10Thresholds[h + 1] > den * 10000
    IN  10 * d + m
\* -math.log10(num / den) for 0 < num <= den, in units of 0.1, rounded down

EmptyCosts == [w \in {} |-> 0]

Eff(count) == IF count > MIN_FREQ_FLOOR THEN count ELSE MIN_FREQ_FLOOR
\* max(count, min_freq_floor)

AddVariantCountsLastWins(ec, word, eff) ==
    LET vs == GenerateVariants(word) \ {word}
    IN  [x \in DOMAIN ec \cup vs |-> IF x \in vs THEN eff ELSE ec[x]]
\* a loop that overwrites the entry of a variant entered by an earlier primary

AddVariantCounts(ec, word, eff) ==
    LET vs == GenerateVariants(word)
    IN  [x \in DOMAIN ec \cup vs |-> IF x \in DOMAIN ec THEN ec[x] ELSE eff]
\* lines 239-242: a variant is entered only if it has no entry yet

RECURSIVE EffectiveCounts(_, _, _)
EffectiveCounts(data, k, ec) ==
    IF k > Len(data) THEN ec
    ELSE LET word == data[k][1]
             eff == Eff(data[k][2])
             ec1 == [x \in DOMAIN ec \cup {word} |-> IF x = word THEN eff ELSE ec[x]]
         IN  EffectiveCounts(data, k + 1, AddVariantCounts(ec1, word, eff))

RECURSIVE TotalTokens(_, _)
TotalTokens(data, k) ==
    IF k > Len(data) THEN 0 ELSE Eff(data[k][2]) + TotalTokens(data, k + 1)

LoadFrequencies(exists, data) ==
    LET ec == EffectiveCounts(data, 1, EmptyCosts)
        total == TotalTokens(data, 1)
    IN  IF ~exists \/ total = 0
        THEN [word_costs |-> EmptyCosts,
              default_cost |-> INIT_DEFAULT_COST,
              unknown_cost |-> INIT_UNKNOWN_COST]
        ELSE [word_costs |-> [w \in DOMAIN ec |-> NegLog10(ec[w], total)],
              default_cost |-> NegLog10(MIN_FREQ_FLOOR, total),
              unknown_cost |-> NegLog10(MIN_FREQ_FLOOR, total) + UNKNOWN_OFFSET]

(***************************************************************************)
(* viterbi.py: get_word_cost and _is_invalid_single.  sg is the segmenter: *)
(* [words, word_costs, default_cost, unknown_cost, max_word_length, rules]. *)
(***************************************************************************)
GetWordCost(sg, word) ==
    IF word \in DOMAIN sg.word_costs THEN sg.word_costs[word]
    ELSE IF word \in sg.words THEN sg.default_cost
    ELSE sg.unknown_cost

IsInvalidSingle(sg, seg) ==
    /\ Len(seg) = 1
    /\ ~IsValidSingleBaseChar(seg[1])
    /\ ~IsDigitChar(seg[1])
    /\ ~IsSeparator(seg)
    /\ seg \notin sg.words

(***************************************************************************)
(* viterbi.py: segment, the DP loop (lines 475-587).  dp is a sequence of  *)
(* n + 1 entries [cost, prev]; position j is entry j + 1.                  *)
(***************************************************************************)
Inf == 1000000000
\* float('inf')
REPAIR_PENALTY == 500
\* 50.0
INVALID_SINGLE_PENALTY == 100
\* 10.0
NUMBER_COST == 10
\* 1.0
SEPARATOR_COST == 1
\* 0.1

InitDP(n) == [j \in 1..(n + 1) |-> IF j = 1 THEN [cost |-> 0, prev |-> -1]
                                   ELSE [cost |-> Inf, prev |-> -1]]

RelaxOnTie(dp, from, to, step_cost) ==
    IF dp[from + 1].cost + step_cost <= dp[to + 1].cost
    THEN [dp EXCEPT ![to + 1] = [cost |-> dp[from + 1].cost + step_cost, prev |-> from]]
    ELSE dp
\* an update that also overwrites dp[to] at equal cost

RelaxAlways(dp, from, to, step_cost) ==
    [dp EXCEPT ![to + 1] = [cost |-> dp[from + 1].cost + step_cost, prev |-> from]]
\* an update that overwrites dp[to] without comparing costs

Relax(dp, from, to, step_cost) ==
    IF dp[from + 1].cost + step_cost < dp[to + 1].cost
    THEN [dp EXCEPT ![to + 1] = [cost |-> dp[from + 1].cost + step_cost, prev |-> from]]
    ELSE dp

ForceRepairOnlyDependentVowel(t, i) == IsDepVowel(t[i + 1])
\* a repair gate without the COENG test of lines 493-501

ForceRepairOnlyAfterCoeng(t, i) == i > 0 /\ t[i] = COENG
\* a repair gate without the dependent-vowel test of lines 503-506

ForceRepair(t, i) ==
    \/ (i > 0 /\ t[i] = COENG)
    \/ IsDepVowel(t[i + 1])
\* lines 487-506

IsCurrencyStart(t, i) ==
    IsCurrencySymbol(t[i + 1]) /\ i + 1 < Len(t) /\ IsDigitChar(t[i + 2])

RepairEdge(sg, t, dp, i) ==
    IF i + 1 <= Len(t) THEN Relax(dp, i, i + 1, sg.unknown_cost + REPAIR_PENALTY) ELSE dp

NumberOrSeparatorEdge(t, dp, i) ==
    IF IsDigitChar(t[i + 1]) \/ IsCurrencyStart(t, i)
    THEN Relax(dp, i, i + NumberLength(t, i), NUMBER_COST)
    ELSE IF IsSeparatorChar(t[i + 1])
         THEN Relax(dp, i, i + 1, SEPARATOR_COST)
         ELSE dp
\* lines 521-537

AcronymEdge(sg, t, dp, i) ==
    IF IsAcronymStart(t, i)
    THEN Relax(dp, i, i + AcronymLength(t, i), sg.default_cost)
    ELSE dp

RECURSIVE DictionaryEdges(_, _, _, _, _, _)
DictionaryEdges(sg, t, dp, i, j, end_limit) ==
    IF j > end_limit THEN dp
    ELSE LET word == Slice(t, i, j)
         IN  DictionaryEdges(sg, t,
                 IF word \in sg.words THEN Relax(dp, i, j, GetWordCost(sg, word)) ELSE dp,
                 i, j + 1, end_limit)
\* lines 550-558, j ascending from i + 1

FallbackLength(t, i) ==
    IF IsKhmerChar(t[i + 1]) THEN KhmerClusterLength(t, i) ELSE 1

FallbackCost(sg, t, i) ==
    IF IsKhmerChar(t[i + 1])
    THEN IF KhmerClusterLength(t, i) = 1 /\ ~IsValidSingleBaseChar(t[i + 1])
         THEN sg.unknown_cost + INVALID_SINGLE_PENALTY
         ELSE sg.unknown_cost
    ELSE sg.unknown_cost

FallbackEdge(sg, t, dp, i) ==
    IF i + FallbackLength(t, i) <= Len(t)
    THEN Relax(dp, i, i + FallbackLength(t, i), FallbackCost(sg, t, i))
    ELSE dp

DPIteration(sg, t, dp, i) ==
    IF dp[i + 1].cost = Inf THEN dp
    ELSE IF ForceRepair(t, i) THEN RepairEdge(sg, t, dp, i)
    ELSE LET dp1 == NumberOrSeparatorEdge(t, dp, i)
             dp2 == AcronymEdge(sg, t, dp1, i)
             dp3 == DictionaryEdges(sg, t, dp2, i, i + 1,
                                    Min2(Len(t), i + sg.max_word_length))
         IN  FallbackEdge(sg, t, dp3, i)
\* one iteration of "for i in range(n)"

RECURSIVE Backtrack(_, _, _, _)
Backtrack(t, dp, curr, segments) ==
    IF curr <= 0 THEN [ok |-> TRUE, segments |-> segments]
    ELSE IF dp[curr + 1].prev = -1 THEN [ok |-> FALSE, segments |-> segments]
    ELSE Backtrack(t, dp, dp[curr + 1].prev,
                   << Slice(t, dp[curr + 1].prev, curr) >> \o segments)
\* lines 590-603: ok = FALSE is the ValueError; segments are built reversed
\* in the code and reversed at the end, here they are prepended

StripZWSKeepsAll(t) == t
\* a text from which no U+200B is removed

StripZWS(t) == SelectSeq(t, LAMBDA c : c # ZWS)
\* text.replace(U+200B, '')

(***************************************************************************)
(* viterbi.py: segment, pass 3 (lines 616-652).                            *)
(***************************************************************************)
IsKnownWithoutDot(sg, seg) ==
    \/ IsDigitChar(seg[1])
    \/ seg \in sg.words
    \/ (Len(seg) = 1 /\ IsValidSingleBaseChar(seg[1]))
    \/ IsSeparator(seg)
\* is_known without the test for '.' of line 631

IsKnown(sg, seg) ==
    \/ IsDigitChar(seg[1])
    \/ seg \in sg.words
    \/ (Len(seg) = 1 /\ IsValidSingleBaseChar(seg[1]))
    \/ IsSeparator(seg)
    \/ (Contains(seg, DOT) /\ Len(seg) >= 2)

RECURSIVE CollapseLoop(_, _, _, _, _)
CollapseLoop(sg, segs, k, final, buffer) ==
    IF k > Len(segs)
    THEN IF buffer # << >> THEN Append(final, Concat(buffer)) ELSE final
    ELSE IF IsKnown(sg, segs[k])
         THEN CollapseLoop(sg, segs, k + 1,
                  Append(IF buffer # << >> THEN Append(final, Concat(buffer)) ELSE final,
                         segs[k]),
                  << >>)
         ELSE CollapseLoop(sg, segs, k + 1, final, Append(buffer, segs[k]))

CollapseUnknowns(sg, segs) == CollapseLoop(sg, segs, 1, << >>, << >>)

(***************************************************************************)
(* rule_engine.py: apply_rules.  A compiled rule is a record               *)
(*   [priority, trigger, checks, action]                                   *)
(* with trigger = [type, token, class, compile]: token is the value of     *)
(* an exact_match trigger; class is the character class of a regex trigger *)
(* of the form [class] (regex_obj.match tests a prefix of the token);      *)
(* a complexity_check trigger has the value "is_invalid_single".           *)
(* A check is [target, exists, check, has_value, value]: check is "none"   *)
(* when the "check" key is absent, has_value says whether "value" is.      *)
(***************************************************************************)
TriggerMatches(sg, trigger, seg) ==
    IF trigger.type = "exact_match" THEN seg = trigger.token
    ELSE IF trigger.type = "regex" THEN Len(seg) >= 1 /\ seg[1] \in trigger.class
    ELSE IF trigger.type = "complexity_check" THEN IsInvalidSingle(sg, seg)
    ELSE FALSE

TargetIndex(check, segments, i) ==
    IF check.target = "prev" THEN (IF i > 0 THEN i - 1 ELSE -1)
    ELSE IF check.target = "next" THEN (IF i + 1 < Len(segments) THEN i + 1 ELSE -1)
    ELSE IF check.target \in {"context", "current"} THEN i
    ELSE -1
\* the 0-based index of target_seg, -1 for None

IsIsolated(segments, i) ==
    /\ (i > 0 => IsSeparator(segments[i]))
    /\ (i + 1 < Len(segments) => IsSeparator(segments[i + 2]))
\* prev_sep and next_sep, each True when the neighbour is absent

CheckPassesUnlessMustExist(check, segments, i) ==
    LET ti == TargetIndex(check, segments, i)
    IN  IF ti = -1 THEN ~check.exists
        ELSE IF check.check = "is_separator"
             THEN check.has_value /\ IsSeparator(segments[ti + 1]) = check.value
        ELSE IF check.check = "is_isolated"
             THEN check.has_value /\ IsIsolated(segments, i) = check.value
        ELSE TRUE
\* a check that an absent target fails only when "exists" is true

CheckPasses(check, segments, i) ==
    LET ti == TargetIndex(check, segments, i)
    IN  IF check.exists /\ ti = -1 THEN FALSE
        ELSE IF ti = -1 THEN ~(check.check # "none" \/ check.has_value)
        ELSE IF check.check = "is_separator"
             THEN check.has_value /\ IsSeparator(segments[ti + 1]) = check.value
        ELSE IF check.check = "is_isolated"
             THEN check.has_value /\ IsIsolated(segments, i) = check.value
        ELSE TRUE
\* lines 83-140; a bool compared with an absent "value" (None) never agrees

ConditionsMet(rule, segments, i) ==
    \A k \in 1..Len(rule.checks) : CheckPasses(rule.checks[k], segments, i)

MergeNext(segments, i) ==
    [k \in 1..(Len(segments) - 1) |->
        IF k < i + 1 THEN segments[k]
        ELSE IF k = i + 1 THEN segments[i + 1] \o segments[i + 2]
        ELSE segments[k + 1]]

MergePrevKeepsLength(segments, i) ==
    [k \in 1..Len(segments) |->
        IF k = i THEN segments[i] \o segments[i + 1] ELSE segments[k]]
\* a merge_prev that appends to the previous token without deleting the
\* current one

MergePrev(segments, i) ==
    [k \in 1..(Len(segments) - 1) |->
        IF k < i THEN segments[k]
        ELSE IF k = i THEN segments[i] \o segments[i + 1]
        ELSE segments[k + 1]]

RECURSIVE RuleLoopStopsAtInapplicableMerge(_, _, _, _)
RuleLoopStopsAtInapplicableMerge(sg, segments, i, k) ==
    IF k > Len(sg.rules) THEN [segments |-> segments, i |-> i + 1]
    ELSE LET rule == sg.rules[k]
         IN  IF ~TriggerMatches(sg, rule.trigger, segments[i + 1])
             THEN RuleLoopStopsAtInapplicableMerge(sg, segments, i, k + 1)
             ELSE IF ~ConditionsMet(rule, segments, i)
             THEN RuleLoopStopsAtInapplicableMerge(sg, segments, i, k + 1)
             ELSE IF rule.action = "merge_next" /\ i + 1 < Len(segments)
             THEN [segments |-> MergeNext(segments, i), i |-> i]
             ELSE IF rule.action = "merge_prev" /\ i > 0
             THEN [segments |-> MergePrev(segments, i), i |-> i - 1]
             ELSE [segments |-> segments, i |-> i + 1]
\* a rule loop in which the first rule whose trigger and checks hold ends the
\* iteration even when its merge has no neighbour to merge with

RECURSIVE RuleLoop(_, _, _, _)
RuleLoop(sg, segments, i, k) ==
    IF k > Len(sg.rules) THEN [segments |-> segments, i |-> i + 1]
    ELSE LET rule == sg.rules[k]
         IN  IF ~TriggerMatches(sg, rule.trigger, segments[i + 1])
             THEN RuleLoop(sg, segments, i, k + 1)
             ELSE IF ~ConditionsMet(rule, segments, i)
             THEN RuleLoop(sg, segments, i, k + 1)
             ELSE IF rule.action = "merge_next" /\ i + 1 < Len(segments)
             THEN [segments |-> MergeNext(segments, i), i |-> i]
             ELSE IF rule.action = "merge_prev" /\ i > 0
             THEN [segments |-> MergePrev(segments, i), i |-> i - 1]
             ELSE IF rule.action = "keep"
             THEN [segments |-> segments, i |-> i + 1]
             ELSE RuleLoop(sg, segments, i, k + 1)
\* one iteration of the while loop (lines 54-166): the "for rule" loop from
\* rule k on; i + 1 when no rule is applied

RECURSIVE ApplyRulesFrom(_, _, _)
ApplyRulesFrom(sg, segments, i) ==
    IF i >= Len(segments) THEN segments
    ELSE LET r == RuleLoop(sg, segments, i, 1)
         IN  ApplyRulesFrom(sg, r.segments, r.i)

ApplyRules(sg, segments) == ApplyRulesFrom(sg, segments, 0)

(***************************************************************************)
(* rule_engine.py: _load_and_compile_rules.  The table is the sequence of  *)
(* rule records of rules.json; a regex trigger carries the outcome of      *)
(* re.compile on its pattern: "ok", "re_error" (re.error, e.g. "[") or     *)
(* "overflow_error" (OverflowError, e.g. "a{4294967296}").                 *)
(***************************************************************************)
RECURSIVE InsertByPriority(_, _)
InsertByPriority(sorted, rule) ==
    IF sorted = << >> THEN << rule >>
    ELSE IF Head(sorted).priority >= rule.priority
         THEN << Head(sorted) >> \o InsertByPriority(Tail(sorted), rule)
         ELSE << rule >> \o sorted

RECURSIVE SortByPriorityDesc(_)
SortByPriorityDesc(table) ==
    IF table = << >> THEN << >>
    ELSE InsertByPriority(SortByPriorityDesc(SubSeq(table, 1, Len(table) - 1)),
                          table[Len(table)])
\* rules.sort(key=priority, reverse=True): stable, equal priorities keep
\* their order in the table

CompileRaises(rule, outcome) ==
    rule.trigger.type = "regex" /\ rule.trigger.compile = outcome

LoadAndCompileRules(exists, table) ==
    IF ~exists THEN << >>
    ELSE LET sorted == SortByPriorityDesc(table)
         IN  IF \E k \in 1..Len(sorted) : CompileRaises(sorted[k], "overflow_error")
             THEN << >>
             ELSE SelectSeq(sorted, LAMBDA r : ~CompileRaises(r, "re_error"))
\* a missing rules.json raises inside the try and the except returns [];
\* re.error is caught per rule (lines 30-34), any other exception of
\* re.compile reaches the outer except (lines 43-45), which returns []

(***************************************************************************)
(* viterbi.py: __init__ (lines 14-30) as a function of its sources.        *)
(***************************************************************************)
Construct(src, fexists, fdata, rexists, rtable) ==
    LET d == LoadDictionary(src)
        f == LoadFrequencies(fexists, fdata)
    IN  [words |-> d.words,
         word_costs |-> f.word_costs,
         default_cost |-> f.default_cost,
         unknown_cost |-> f.unknown_cost,
         max_word_length |-> d.max_word_length,
         rules |-> LoadAndCompileRules(rexists, rtable)]

(***************************************************************************)
(* State.                                                                  *)
(***************************************************************************)
VARIABLES
    phase,            \* "new" before __init__, then "ready" or "failed"
    dict_exists,      \* os.path.exists(dictionary_path)
    dict_src,         \* the dictionary file's stripped lines
    freq_exists,      \* os.path.exists(frequency_path)
    freq_data,        \* the frequency table's (word, count) items, in order
    rules_exists,     \* whether rules.json can be opened
    rules_table,      \* the rule records of rules.json, in file order
    words,            \* self.words
    word_costs,       \* self.word_costs
    default_cost,     \* self.default_cost
    unknown_cost,     \* self.unknown_cost
    max_word_length,  \* self.max_word_length
    rules,            \* self.rule_engine.rules (compiled, priority descending)
    call,             \* per worker: the locals of its segment call
    norm,             \* the locals of a caller applying normalize repeatedly
    derive,           \* the locals of derive_compound_frequency
    engine,           \* the locals of apply_rules, iteration by iteration
    kdict             \* the hash table size computed by step_compile_kdict

inputVars == << dict_exists, dict_src, freq_exists, freq_data, rules_exists, rules_table >>
segmenterVars ==
    << words, word_costs, default_cost, unknown_cost, max_word_length, rules >>
scriptVars == << derive, engine, kdict >>
vars == << phase, inputVars, segmenterVars, call, norm, scriptVars >>


Sg ==
    [words |-> words, word_costs |-> word_costs, default_cost |-> default_cost,
     unknown_cost |-> unknown_cost, max_word_length |-> max_word_length,
     rules |-> rules]
\* the segmenter as the running calls see it

Built == Construct(dict_src, freq_exists, freq_data, rules_exists, rules_table)
\* the segmenter as __init__ built it from its sources

(***************************************************************************)
(* segment run alone, start to end, on segmenter sg.                       *)
(***************************************************************************)
RECURSIVE DPLoop(_, _, _, _)
DPLoop(sg, t, dp, i) ==
    IF i >= Len(t) THEN dp ELSE DPLoop(sg, t, DPIteration(sg, t, dp, i), i + 1)

SegmentAlone(sg, s) ==
    LET t == StripZWS(Normalize(s))
    IN  IF Len(t) = 0 THEN [ok |-> TRUE, result |-> << >>]
        ELSE LET bt == Backtrack(t, DPLoop(sg, t, InitDP(Len(t)), 0), Len(t), << >>)
             IN  IF ~bt.ok THEN [ok |-> FALSE, result |-> << >>]
                 ELSE [ok |-> TRUE,
                       result |-> CollapseUnknowns(sg, ApplyRules(sg, bt.segments))]

(***************************************************************************)
(* Bounds and the inputs drawn within them.                                *)
(***************************************************************************)
MaxTextLen == 3
MaxNormLen == 4
NumWorkers == 2
MaxDictLines == 2
MaxFreqEntries == 2

SegAlphabet == {KA, COENG, VOWEL_AA, DOT, DOLLAR, ZWS, 49, 97}
\* 49 is the digit '1', 97 the letter 'a'
SegTexts == UNION {[1..k -> SegAlphabet] : k \in 0..MaxTextLen}

NormAlphabet ==
    {KA, RO, COENG, VOWEL_E, VOWEL_II, VOWEL_AA, SIGN_NIKAHIT, SPACE}
NormTexts == UNION {[1..k -> NormAlphabet] : k \in 0..MaxNormLen}

ConcInputs ==
    { << 97, KA, KA >>, << COENG, 49, 49 >>, << DOLLAR, 49 >>, << KA, ZWS >> }

Workers == 1..NumWorkers

(***************************************************************************)
(* Rule tables (rules.json is data shipped beside rule_engine.py).         *)
(***************************************************************************)
NoCheckValue == [check |-> "none", has_value |-> FALSE, value |-> FALSE]

RuleMergeCurrency ==
    [priority |-> 100,
     trigger |-> [type |-> "regex", token |-> << >>, class |-> {DOLLAR},
                  compile |-> "ok"],
     checks |-> << [target |-> "next", exists |-> TRUE] @@ NoCheckValue >>,
     action |-> "merge_next"]

RuleInvalidSingle ==
    [priority |-> 90,
     trigger |-> [type |-> "complexity_check", token |-> << >>, class |-> {},
                  compile |-> "ok"],
     checks |-> << [target |-> "prev", exists |-> TRUE, check |-> "is_separator",
                    has_value |-> TRUE, value |-> FALSE] >>,
     action |-> "merge_prev"]

RuleKeepKa ==
    [priority |-> 80,
     trigger |-> [type |-> "exact_match", token |-> << KA >>, class |-> {},
                  compile |-> "ok"],
     checks |-> << [target |-> "current", exists |-> FALSE, check |-> "is_isolated",
                    has_value |-> TRUE, value |-> TRUE] >>,
     action |-> "keep"]

RuleTableA == << RuleKeepKa, RuleMergeCurrency, RuleInvalidSingle >>

(***************************************************************************)
(* Sources of the segmenters that run segment calls.                       *)
(***************************************************************************)
CfgRules ==
    [dict_src |-> << << KA, VOWEL_AA >>, << KA, COENG, KA >>, << KA, KA >>,
                   << COENG, KA >> >>,
     freq_exists |-> FALSE, freq_data |-> << >>,
     rules_exists |-> TRUE, rules_table |-> RuleTableA]
\* no frequency file, a rule table

CfgFrequencies ==
    [dict_src |-> << << KA, VOWEL_AA >>, << 49, 49 >>, << 97, 97 >> >>,
     freq_exists |-> TRUE,
     freq_data |-> << << << KA, VOWEL_AA >>, 1000 >>, << << 49, 49 >>, 1000 >> >>,
     rules_exists |-> FALSE, rules_table |-> << >>]
\* a frequency file, no rules.json

SegConfigs == {CfgRules, CfgFrequencies}

(***************************************************************************)
(* segment as steps of worker w.                                           *)
(***************************************************************************)
IdleCall ==
    [pc |-> "idle", arg |-> << >>, text |-> << >>, dp |-> << >>, i |-> 0,
     segments |-> << >>, result |-> << >>]

NormIdle == [pc |-> "idle", input |-> << >>, once |-> << >>, twice |-> << >>]

DeriveIdle == [pc |-> "idle", word |-> << >>, original_words |-> {}]

EngineIdle == [pc |-> "idle", segments |-> << >>, i |-> 0]

KdictIdle == [pc |-> "idle", num_entries |-> 0, table_size |-> 0]

SegBegin(w, s) ==
    /\ phase = "ready"
    /\ call[w].pc = "idle"
    /\ LET t == StripZWS(Normalize(s))
       IN  call' = [call EXCEPT ![w] =
               IF Len(t) = 0
               THEN [IdleCall EXCEPT !.pc = "done", !.arg = s]
               ELSE [IdleCall EXCEPT !.pc = "dp", !.arg = s, !.text = t,
                                     !.dp = InitDP(Len(t))]]
    /\ UNCHANGED << phase, inputVars, segmenterVars, norm, scriptVars >>
\* lines 465-478

DPStepResetsMaxWordLength(w) ==
    /\ call[w].pc = "dp"
    /\ call' = [call EXCEPT
                   ![w].dp = DPIteration(Sg, call[w].text, call[w].dp, call[w].i),
                   ![w].i = call[w].i + 1,
                   ![w].pc = IF call[w].i + 1 >= Len(call[w].text)
                             THEN "backtrack" ELSE "dp"]
    /\ max_word_length' = 0
    /\ UNCHANGED << phase, inputVars, words, word_costs, default_cost, unknown_cost,
                    rules, norm, scriptVars >>
\* a DP iteration that also writes the shared max_word_length

DPStep(w) ==
    /\ call[w].pc = "dp"
    /\ call' = [call EXCEPT
                   ![w].dp = DPIteration(Sg, call[w].text, call[w].dp, call[w].i),
                   ![w].i = call[w].i + 1,
                   ![w].pc = IF call[w].i + 1 >= Len(call[w].text)
                             THEN "backtrack" ELSE "dp"]
    /\ UNCHANGED << phase, inputVars, segmenterVars, norm, scriptVars >>
\* one iteration of the loop at lines 480-587

BacktrackStep(w) ==
    /\ call[w].pc = "backtrack"
    /\ LET bt == Backtrack(call[w].text, call[w].dp, Len(call[w].text), << >>)
       IN  call' = [call EXCEPT ![w].pc = IF bt.ok THEN "rules" ELSE "error",
                                ![w].segments = bt.segments]
    /\ UNCHANGED << phase, inputVars, segmenterVars, norm, scriptVars >>
\* lines 590-603; pc = "error" is the ValueError

RulesStep(w) ==
    /\ call[w].pc = "rules"
    /\ call' = [call EXCEPT ![w].pc = "collapse",
                            ![w].segments = ApplyRules(Sg, call[w].segments)]
    /\ UNCHANGED << phase, inputVars, segmenterVars, norm, scriptVars >>
\* line 609: apply_rules rewrites the raw token list in place

CollapseStepLearnsTokens(w) ==
    /\ call[w].pc = "collapse"
    /\ LET out == CollapseUnknowns(Sg, call[w].segments)
       IN  /\ call' = [call EXCEPT ![w].pc = "done", ![w].result = out]
           /\ words' = words \cup {out[k] : k \in 1..Len(out)}
    /\ UNCHANGED << phase, inputVars, word_costs, default_cost, unknown_cost,
                    max_word_length, rules, norm, scriptVars >>
\* a collapser that records the tokens it emits in the shared word set

CollapseStep(w) ==
    /\ call[w].pc = "collapse"
    /\ call' = [call EXCEPT ![w].pc = "done",
                            ![w].result = CollapseUnknowns(Sg, call[w].segments)]
    /\ UNCHANGED << phase, inputVars, segmenterVars, norm, scriptVars >>
\* lines 616-652

SegStep(w) ==
    \/ DPStep(w)
    \/ BacktrackStep(w)
    \/ RulesStep(w)
    \/ CollapseStep(w)

InitReady ==
    /\ phase = "ready"
    /\ dict_exists = TRUE
    /\ \E cfg \in SegConfigs :
          /\ dict_src = cfg.dict_src
          /\ freq_exists = cfg.freq_exists
          /\ freq_data = cfg.freq_data
          /\ rules_exists = cfg.rules_exists
          /\ rules_table = cfg.rules_table
    /\ words = Built.words
    /\ word_costs = Built.word_costs
    /\ default_cost = Built.default_cost
    /\ unknown_cost = Built.unknown_cost
    /\ max_word_length = Built.max_word_length
    /\ rules = Built.rules
    /\ call = [w \in Workers |-> IdleCall]
    /\ norm = NormIdle
    /\ derive = DeriveIdle
    /\ engine = EngineIdle
    /\ kdict = KdictIdle

(***************************************************************************)
(* Spec: one segment call on a constructed segmenter, any text.            *)
(***************************************************************************)
Init == InitReady

Next ==
    \/ \E s \in SegTexts : SegBegin(1, s)
    \/ SegStep(1)

Spec == Init /\ [][Next]_vars

(***************************************************************************)
(* SpecConc: segment calls of several workers on one shared segmenter      *)
(* (run_concurrently, __main__.py lines 22-25), steps interleaved.         *)
(***************************************************************************)
NextConc ==
    \E w \in Workers :
        \/ \E s \in ConcInputs : SegBegin(w, s)
        \/ SegStep(w)

SpecConc == Init /\ [][NextConc]_vars

(***************************************************************************)
(* SpecZws: one segment call on texts that put U+200B between bases,       *)
(* vowels and COENG.                                                       *)
(***************************************************************************)
ZwsAlphabet == {KA, COENG, VOWEL_E, VOWEL_AA, ZWS}
ZwsTexts == UNION {[1..k -> ZwsAlphabet] : k \in 0..MaxTextLen}

NextZws ==
    \/ \E s \in ZwsTexts : SegBegin(1, s)
    \/ SegStep(1)

SpecZws == Init /\ [][NextZws]_vars

(***************************************************************************)
(* SpecNorm: a caller applies normalize to a text and again to the result. *)
(***************************************************************************)
InitNew ==
    /\ phase = "new"
    /\ words = {}
    /\ word_costs = EmptyCosts
    /\ default_cost = INIT_DEFAULT_COST
    /\ unknown_cost = INIT_UNKNOWN_COST
    /\ max_word_length = 0
    /\ rules = << >>
    /\ call = [w \in Workers |-> IdleCall]
    /\ norm = NormIdle
    /\ derive = DeriveIdle
    /\ engine = EngineIdle
    /\ kdict = KdictIdle
\* the attributes as __init__ sets them before the loads (lines 14-27)

NormFirst(s) ==
    /\ norm.pc = "idle"
    /\ norm' = [pc |-> "once", input |-> s, once |-> Normalize(s), twice |-> << >>]
    /\ UNCHANGED << phase, inputVars, segmenterVars, call, scriptVars >>

NormSecond ==
    /\ norm.pc = "once"
    /\ norm' = [norm EXCEPT !.pc = "twice", !.twice = Normalize(norm.once)]
    /\ UNCHANGED << phase, inputVars, segmenterVars, call, scriptVars >>

InitNorm ==
    /\ InitNew
    /\ dict_exists = TRUE
    /\ dict_src = << >>
    /\ freq_exists = FALSE
    /\ freq_data = << >>
    /\ rules_exists = FALSE
    /\ rules_table = << >>

NextNorm ==
    \/ \E s \in NormTexts : NormFirst(s)
    \/ NormSecond

SpecNorm == InitNorm /\ [][NextNorm]_vars

(***************************************************************************)
(* SpecCorpus: scripts/prepare_data.py, step_normalize_corpus writes       *)
(* norm.normalize(line) for every line of the corpus.                      *)
(***************************************************************************)
CorpusAlphabet == {KA, VOWEL_AA, ZWS, ZWNJ, ZWJ}
CorpusLines == UNION {[1..k -> CorpusAlphabet] : k \in 0..MaxNormLen}

NextCorpus == \E line \in CorpusLines : NormFirst(line)
\* lines 111-113: f_out.write(norm.normalize(line))

SpecCorpus == InitNorm /\ [][NextCorpus]_vars

(***************************************************************************)
(* SpecLoad: construction of a segmenter from its sources.                 *)
(***************************************************************************)
DictPool ==
    { << KA, COENG, TA >>,
      << KA, COENG, RO, COENG, TA >>,
      << OR_VOWEL, KA, COENG, TA, COENG, DA >>,
      << KA, COENG, DA, COENG, DA >>,
      << KA, OR_VOWEL, KA >>,
      << KA >>,
      << VOWEL_AA >>,
      << COENG, KA >>,
      << KA, COENG, TA, REPEAT_MARK >>,
      << >> }
LinesOf(S) == CHOOSE f \in [1..Cardinality(S) -> S] : \A a, b \in DOMAIN f : a # b => f[a] # f[b]
DictSources == {LinesOf(S) : S \in {T \in SUBSET DictPool : Cardinality(T) <= MaxDictLines}}
\* one file per set of lines: the loader adds each line to a set (lines 38-45),
\* so the order and the repetition of lines have no effect

FreqPool ==
    { << KA, COENG, TA, COENG, DA >>, << KA, COENG, DA, COENG, DA >>,
      << KA, COENG, RO, COENG, TA >> }
FreqCounts == {3, 100}
FreqTables ==
    {d \in UNION {[1..k -> FreqPool \X FreqCounts] : k \in 0..MaxFreqEntries} :
        \A a, b \in 1..Len(d) : a # b => d[a][1] # d[b][1]}
\* a JSON object has one count per key

RuleFiles ==
    { [exists |-> FALSE, table |-> << >>], [exists |-> TRUE, table |-> RuleTableA] }

InitLoad ==
    /\ InitNew
    /\ dict_exists \in BOOLEAN
    /\ dict_src \in (IF dict_exists THEN DictSources ELSE {<< >>})
    /\ freq_exists \in BOOLEAN
    /\ freq_data \in (IF freq_exists THEN FreqTables ELSE {<< >>})
    /\ \E rf \in RuleFiles : rules_exists = rf.exists /\ rules_table = rf.table

ConstructOkIgnoresMissingDictionary ==
    /\ phase = "new"
    /\ phase' = "ready"
    /\ LET b == Built
       IN  /\ words' = b.words
           /\ word_costs' = b.word_costs
           /\ default_cost' = b.default_cost
           /\ unknown_cost' = b.unknown_cost
           /\ max_word_length' = b.max_word_length
           /\ rules' = b.rules
    /\ UNCHANGED << inputVars, call, norm, scriptVars >>
\* a constructor that treats a missing dictionary file as an empty one

ConstructOk ==
    /\ phase = "new"
    /\ dict_exists
    /\ phase' = "ready"
    /\ LET b == Built
       IN  /\ words' = b.words
           /\ word_costs' = b.word_costs
           /\ default_cost' = b.default_cost
           /\ unknown_cost' = b.unknown_cost
           /\ max_word_length' = b.max_word_length
           /\ rules' = b.rules
    /\ UNCHANGED << inputVars, call, norm, scriptVars >>
\* __init__, lines 14-30

ConstructFails ==
    /\ phase = "new"
    /\ ~dict_exists
    /\ phase' = "failed"
    /\ rules' = LoadAndCompileRules(rules_exists, rules_table)
    /\ UNCHANGED << inputVars, words, word_costs, default_cost, unknown_cost,
                    max_word_length, call, norm, scriptVars >>
\* _load_dictionary raises FileNotFoundError (lines 33-34) after the rule
\* engine was built (lines 24-27)

NextLoad == ConstructOk \/ ConstructFails

SpecLoad == InitLoad /\ [][NextLoad]_vars

(***************************************************************************)
(* SpecRuleLoad: construction over rules.json files that hold well-formed  *)
(* rules and rules whose regex pattern re.compile refuses.                 *)
(***************************************************************************)
MaxRuleFileLen == 3

RuleBadBracket ==
    [priority |-> 95,
     trigger |-> [type |-> "regex", token |-> << >>, class |-> {},
                  compile |-> "re_error"],
     checks |-> << >>,
     action |-> "merge_next"]
\* "value": "[" (re.error: unterminated character set)

RuleHugeRepeat ==
    [priority |-> 85,
     trigger |-> [type |-> "regex", token |-> << >>, class |-> {},
                  compile |-> "overflow_error"],
     checks |-> << >>,
     action |-> "merge_next"]
\* "value": "a{4294967296}" (OverflowError: the repetition number is too large)

LoadRulePool ==
    {RuleMergeCurrency, RuleInvalidSingle, RuleKeepKa, RuleBadBracket, RuleHugeRepeat}

LoadRuleTables ==
    {t \in UNION {[1..k -> LoadRulePool] : k \in 0..MaxRuleFileLen} :
        \A a, b \in 1..Len(t) : a # b => t[a] # t[b]}

InitRuleLoad ==
    /\ InitNew
    /\ dict_exists \in BOOLEAN
    /\ dict_src = (IF dict_exists THEN CfgRules.dict_src ELSE << >>)
    /\ freq_exists = FALSE
    /\ freq_data = << >>
    /\ rules_exists = TRUE
    /\ rules_table \in LoadRuleTables

SpecRuleLoad == InitRuleLoad /\ [][NextLoad]_vars

(***************************************************************************)
(* SpecKdict: scripts/prepare_data.py, step_compile_kdict sizes the hash   *)
(* table of the KDIC file from the number of dictionary entries.           *)
(***************************************************************************)
MaxEntries == 128

RECURSIVE PowerOfTwoAtLeast(_, _)
PowerOfTwoAtLeast(p, n) == IF p >= n THEN p ELSE PowerOfTwoAtLeast(2 * p, n)

next_power_of_two(n) == IF n <= 0 THEN 1 ELSE PowerOfTwoAtLeast(1, n)
\* 1 << (n - 1).bit_length(): the least power of two that is >= n

KdictCount(n) ==
    /\ kdict.pc = "idle"
    /\ kdict' = [pc |-> "counted", num_entries |-> n, table_size |-> 0]
    /\ UNCHANGED << phase, inputVars, segmenterVars, call, norm, derive, engine >>
\* line 414: num_entries = len(words)

KdictAllocate ==
    /\ kdict.pc = "counted"
    /\ kdict' = [kdict EXCEPT
                    !.pc = "sized",
                    !.table_size = next_power_of_two((kdict.num_entries * 10) \div 7)]
    /\ UNCHANGED << phase, inputVars, segmenterVars, call, norm, derive, engine >>
\* line 415: int(num_entries / 0.70) truncates; for the counts modelled the
\* float quotient truncates to floor(10 * num_entries / 7)

NextKdict ==
    \/ \E n \in 1..MaxEntries : KdictCount(n)
    \/ KdictAllocate

SpecKdict == InitNorm /\ [][NextKdict]_vars

(***************************************************************************)
(* SpecUpdate: scripts/incremental_update.py calls                         *)
(* derive_compound_frequency(word, ..., segmenter) on a constructed        *)
(* segmenter, between ordinary segment calls of the same segmenter.        *)
(***************************************************************************)
DeriveWords == { << KA, KA >>, << KA, VOWEL_AA >>, << KA, COENG, KA >>, << KA, 49 >> }

DeriveBegin(word) ==
    /\ phase = "ready"
    /\ derive.pc = "idle"
    /\ call[1].pc = "idle"
    /\ derive' = [pc |-> "removed", word |-> word, original_words |-> words]
    /\ words' = words \ {word}
    /\ max_word_length' = IF word \in words THEN 0 ELSE max_word_length
    /\ UNCHANGED << phase, inputVars, word_costs, default_cost, unknown_cost,
                    rules, call, norm, engine, kdict >>
\* lines 44-47: copy the word set, remove the word, zero max_word_length

DeriveSegment ==
    /\ derive.pc = "removed"
    /\ call[1].pc = "idle"
    /\ LET t == StripZWS(Normalize(derive.word))
       IN  call' = [call EXCEPT ![1] =
               IF Len(t) = 0
               THEN [IdleCall EXCEPT !.pc = "done", !.arg = derive.word]
               ELSE [IdleCall EXCEPT !.pc = "dp", !.arg = derive.word, !.text = t,
                                     !.dp = InitDP(Len(t))]]
    /\ derive' = [derive EXCEPT !.pc = "segmenting"]
    /\ UNCHANGED << phase, inputVars, segmenterVars, norm, engine, kdict >>
\* line 50: segments = segmenter.segment(word)

DeriveRestore ==
    /\ derive.pc = "segmenting"
    /\ call[1].pc \in {"done", "error"}
    /\ words' = derive.original_words
    /\ derive' = DeriveIdle
    /\ call' = [call EXCEPT ![1] = IdleCall]
    /\ UNCHANGED << phase, inputVars, word_costs, default_cost, unknown_cost,
                    max_word_length, rules, norm, engine, kdict >>
\* line 53: segmenter.words = original_words; max_word_length is not restored

SegReturn ==
    /\ derive.pc = "idle"
    /\ call[1].pc = "done"
    /\ call' = [call EXCEPT ![1] = IdleCall]
    /\ UNCHANGED << phase, inputVars, segmenterVars, norm, scriptVars >>
\* an ordinary segment call returns to its caller

NextUpdate ==
    \/ \E word \in DeriveWords : DeriveBegin(word)
    \/ DeriveSegment
    \/ DeriveRestore
    \/ \E s \in ConcInputs \cup DeriveWords : derive.pc = "idle" /\ SegBegin(1, s)
    \/ SegStep(1)
    \/ SegReturn

SpecUpdate == Init /\ [][NextUpdate]_vars

(***************************************************************************)
(* SpecRules: apply_rules (rule_engine.py lines 47-168) one while          *)
(* iteration at a time, for rule tables mixing every trigger type with     *)
(* every action, on any short token list.                                  *)
(***************************************************************************)
MaxRules == 2
MaxTokens == 3

EngineTriggers ==
    << [type |-> "exact_match", token |-> << KA >>, class |-> {}, compile |-> "ok"],
       [type |-> "regex", token |-> << >>, class |-> {DOLLAR}, compile |-> "ok"],
       [type |-> "complexity_check", token |-> << >>, class |-> {}, compile |-> "ok"] >>

EngineChecks ==
    << << >>,
       << [target |-> "next", exists |-> TRUE] @@ NoCheckValue >>,
       << [target |-> "prev", exists |-> FALSE, check |-> "is_separator",
           has_value |-> TRUE, value |-> FALSE] >>,
       << [target |-> "next", exists |-> FALSE] @@ NoCheckValue >> >>

EngineActions == << "merge_next", "merge_prev", "keep" >>

EngineRule(t, a) ==
    [priority |-> 10 * (3 * (t - 1) + a),
     trigger |-> EngineTriggers[t],
     checks |-> EngineChecks[((t + a) % 4) + 1],
     action |-> EngineActions[a]]

EnginePool == [n \in 1..9 |-> EngineRule(((n - 1) \div 3) + 1, ((n - 1) % 3) + 1)]

EngineRuleTables ==
    { SelectSeq(EnginePool, LAMBDA r : r.priority \in {10 * n : n \in S}) :
        S \in {T \in SUBSET (1..9) : Cardinality(T) <= MaxRules} }
\* the tables of at most MaxRules rules, in ascending priority in the file

EngineTokens == { << KA >>, << DOLLAR >>, << COENG >> }
\* a base character, a separator and an invalid single
EngineLists == UNION {[1..k -> EngineTokens] : k \in 0..MaxTokens}

InitRules ==
    /\ phase = "ready"
    /\ dict_exists = TRUE
    /\ dict_src = CfgRules.dict_src
    /\ freq_exists = FALSE
    /\ freq_data = << >>
    /\ rules_exists = TRUE
    /\ rules_table \in EngineRuleTables
    /\ words = Built.words
    /\ word_costs = Built.word_costs
    /\ default_cost = Built.default_cost
    /\ unknown_cost = Built.unknown_cost
    /\ max_word_length = Built.max_word_length
    /\ rules = Built.rules
    /\ call = [w \in Workers |-> IdleCall]
    /\ norm = NormIdle
    /\ derive = DeriveIdle
    /\ engine = EngineIdle
    /\ kdict = KdictIdle

EngineBegin(segments) ==
    /\ engine.pc = "idle"
    /\ engine' = [pc |-> "loop", segments |-> segments, i |-> 0]
    /\ UNCHANGED << phase, inputVars, segmenterVars, call, norm, derive, kdict >>
\* line 52: i = 0

EngineIteration ==
    /\ engine.pc = "loop"
    /\ engine.i < Len(engine.segments)
    /\ LET r == RuleLoop(Sg, engine.segments, engine.i, 1)
       IN  engine' = [engine EXCEPT !.segments = r.segments, !.i = r.i]
    /\ UNCHANGED << phase, inputVars, segmenterVars, call, norm, derive, kdict >>
\* lines 53-166: one pass of the while body

EngineReturn ==
    /\ engine.pc = "loop"
    /\ engine.i >= Len(engine.segments)
    /\ engine' = [engine EXCEPT !.pc = "done"]
    /\ UNCHANGED << phase, inputVars, segmenterVars, call, norm, derive, kdict >>
\* line 53 (condition false) and line 168

NextRules ==
    \/ \E segments \in EngineLists : EngineBegin(segments)
    \/ EngineIteration
    \/ EngineReturn

SpecRules == InitRules /\ [][NextRules]_vars

SpecRulesFair == SpecRules /\ WF_vars(EngineIteration) /\ WF_vars(EngineReturn)
\* a running call is never suspended for ever

(***************************************************************************)
(* Properties.                                                             *)
(***************************************************************************)
NormalizedSegTexts == {Normalize(s) : s \in SegTexts}

\* C1: when segment is applied to normalize(s), the concatenation of the
\* returned tokens equals normalize(s) exactly, for every s (zero-width
\* characters included).
C1_ConcatEqualsNormalizedInput ==
    \A w \in Workers :
        (call[w].pc = "done" /\ call[w].arg \in NormalizedSegTexts)
            => Concat(call[w].result) = call[w].arg

\* C2: segment never fails with "Could not segment text": every processed
\* reachable position i < n has its repair or unknown-fallback edge ending at
\* a reachable position in (i, n], dp[n] is reachable after the loop, and
\* the backtrack from n reaches 0.
C2_SegmentNeverFails ==
    \A w \in Workers :
        LET c == call[w]
            n == Len(c.text)
        IN  /\ c.pc # "error"
            /\ c.pc \in {"dp", "backtrack"} =>
                  \A p \in 0..(c.i - 1) :
                      c.dp[p + 1].cost < Inf =>
                          LET len == IF ForceRepair(c.text, p) THEN 1
                                     ELSE FallbackLength(c.text, p)
                          IN  /\ len >= 1
                              /\ p + len <= n
                              /\ c.dp[p + len + 1].cost < Inf
            /\ c.pc = "backtrack" =>
                  /\ c.dp[n + 1].cost < Inf
                  /\ Backtrack(c.text, c.dp, n, << >>).ok

C2_Witness ==
    \E w \in Workers :
        /\ call[w].pc = "rules"
        /\ Len(call[w].text) >= 3
        /\ call[w].text[1] = COENG
        /\ IsDepVowel(call[w].text[3])
        /\ Concat(call[w].segments) = call[w].text

\* C3: normalize is idempotent: normalizing the result of normalize changes
\* nothing, for every input text.
C3_NormalizeIdempotent ==
    norm.pc = "twice" => norm.twice = norm.once

InFlight(w) == call[w].pc \in {"dp", "backtrack", "rules", "collapse"}

\* C4: with any number of segment calls interleaved on one shared segmenter,
\* no call fails and each finished call has returned exactly the tokens that
\* segment returns for its input when run alone on the segmenter as built.
C4_ConcurrentResultEqualsAlone ==
    \A w \in Workers :
        /\ call[w].pc # "error"
        /\ call[w].pc = "done" =>
              LET alone == SegmentAlone(Built, call[w].arg)
              IN  alone.ok /\ call[w].result = alone.result

C4_Witness ==
    \E w, v \in Workers :
        /\ w # v
        /\ call[w].pc = "done"
        /\ call[w].arg = << 97, KA, KA >>
        /\ Len(call[w].result) >= 2
        /\ InFlight(v)
        /\ call[v].i >= 1

\* C5: no step of a segment call changes words, word_costs, default_cost,
\* unknown_cost, max_word_length or the rule list; a step of one call changes
\* no other call's dp array, token list or result, and a call starts with a
\* fresh dp array and an empty token list.
C5_SegmentLeavesSegmenterUnchanged ==
    [][ /\ segmenterVars' = segmenterVars
        /\ \A w \in Workers :
              /\ call'[w] # call[w] => \A v \in Workers \ {w} : call'[v] = call[v]
              /\ (call[w].pc = "idle" /\ call'[w].pc = "dp") =>
                    /\ call'[w].dp = InitDP(Len(call'[w].text))
                    /\ call'[w].segments = << >> ]_vars

C5_Witness ==
    /\ \A w \in Workers : call[w].pc = "done" /\ call[w].result # << >>
    /\ \E w, v \in Workers : call[w].arg # call[v].arg
    /\ Sg = Built

TokenBoundaries(tokens) ==
    {Len(Concat(SubSeq(tokens, 1, k))) : k \in 0..Len(tokens)}
\* the offsets in the text at which a token of the list ends

IsMaximalDigitRun(t, a, b) ==
    /\ a < b
    /\ \A p \in (a + 1)..b : IsDigitChar(t[p])
    /\ a = 0 \/ ~IsDigitChar(t[a])
    /\ b = Len(t) \/ ~IsDigitChar(t[b + 1])
\* the code points at offsets a .. b-1 are a maximal run of digits

NoDigitInWords ==
    \A word \in words : \A k \in 1..Len(word) : ~IsDigitChar(word[k])

\* C6 (as stated): every maximal run of adjacent digits of the segmented text
\* lies inside one returned token, whatever precedes the run.
C6_EveryDigitRunInOneToken ==
    \A w \in Workers :
        call[w].pc = "done" =>
            \A a \in 0..Len(call[w].text), b \in 0..Len(call[w].text) :
                IsMaximalDigitRun(call[w].text, a, b) =>
                    \A k \in (a + 1)..(b - 1) : k \notin TokenBoundaries(call[w].result)

\* C6 (amended): when no dictionary word contains a digit, every maximal run
\* of adjacent digits that is not immediately preceded by COENG lies inside
\* one returned token.
C6_DigitRunNotAfterCoengInOneToken ==
    \A w \in Workers :
        (call[w].pc = "done" /\ NoDigitInWords) =>
            \A a \in 0..Len(call[w].text), b \in 0..Len(call[w].text) :
                (/\ IsMaximalDigitRun(call[w].text, a, b)
                 /\ a = 0 \/ call[w].text[a] # COENG) =>
                    \A k \in (a + 1)..(b - 1) : k \notin TokenBoundaries(call[w].result)

C6_Witness ==
    \E w \in Workers :
        /\ call[w].pc = "done"
        /\ NoDigitInWords
        /\ call[w].text = << 97, 49, 49 >>
        /\ call[w].result = << << 97 >>, << 49, 49 >> >>

\* C7: when a currency symbol is immediately followed by a digit, the symbol
\* and that digit are in the same returned token.
C7_CurrencySymbolJoinsNumber ==
    \A w \in Workers :
        call[w].pc = "done" =>
            \A p \in 1..(Len(call[w].text) - 1) :
                (IsCurrencySymbol(call[w].text[p]) /\ IsDigitChar(call[w].text[p + 1]))
                    => p \notin TokenBoundaries(call[w].result)

\* C8 (as stated): a returned token that begins with COENG has length 1 and
\* starts at a position where the repair gate is set.
C8_CoengTokenIsRepairToken ==
    \A w \in Workers :
        call[w].pc = "done" =>
            \A k \in 1..Len(call[w].result) :
                StartsWith(call[w].result[k], COENG) =>
                    /\ Len(call[w].result[k]) = 1
                    /\ ForceRepair(call[w].text,
                                   Len(Concat(SubSeq(call[w].result, 1, k - 1))))

\* C8 (amended): every raw token of the DP backtrack, before the rule engine
\* and the unknown-collapser run, that begins with COENG has length 1.
C8_RawCoengTokenHasLengthOne ==
    \A w \in Workers :
        call[w].pc = "rules" =>
            \A k \in 1..Len(call[w].segments) :
                StartsWith(call[w].segments[k], COENG) => Len(call[w].segments[k]) = 1

C8_Witness ==
    \E w \in Workers :
        /\ call[w].pc = "rules"
        /\ call[w].text = << COENG, KA >>
        /\ call[w].segments = << << COENG >>, << KA >> >>
        /\ << COENG, KA >> \in {dict_src[k] : k \in 1..Len(dict_src)}

FreqWords == {freq_data[k][1] : k \in 1..Len(freq_data)}
\* the words with a count of their own in the frequency table

PrimariesOf(v) == {k \in 1..Len(freq_data) : v \in GenerateVariants(freq_data[k][1])}
\* the table entries of which v is a variant

\* C9 (as stated): after construction every variant v, without a count of its
\* own, of every word w of the frequency table has the cost of w.
C9_VariantCostEqualsEveryPrimary ==
    (phase = "ready" /\ freq_exists) =>
        \A k \in 1..Len(freq_data) :
            \A v \in GenerateVariants(freq_data[k][1]) \ FreqWords :
                GetWordCost(Sg, v) = GetWordCost(Sg, freq_data[k][1])

\* C9 (amended): after construction every variant v without a count of its
\* own has the cost of the first word of the frequency table, in iteration
\* order, of which it is a variant.
C9_VariantCostEqualsFirstPrimary ==
    (phase = "ready" /\ freq_exists) =>
        \A k \in 1..Len(freq_data) :
            \A v \in GenerateVariants(freq_data[k][1]) \ FreqWords :
                LET first == CHOOSE j \in PrimariesOf(v) : \A h \in PrimariesOf(v) : j <= h
                IN  GetWordCost(Sg, v) = GetWordCost(Sg, freq_data[first][1])

C9_Witness ==
    /\ phase = "ready"
    /\ freq_exists
    /\ Len(freq_data) >= 2
    /\ \E v \in GenerateVariants(freq_data[1][1]) \ FreqWords :
          /\ PrimariesOf(v) = {1, 2}
          /\ GetWordCost(Sg, freq_data[1][1]) # GetWordCost(Sg, freq_data[2][1])
          /\ GetWordCost(Sg, v) = GetWordCost(Sg, freq_data[1][1])

OneStepVariants(w) == TaDaVariants(w) \cup RoSwaps(w)
\* w with Ta replaced by Da, with Da replaced by Ta, and with the Ro swaps

DictLines == {dict_src[k] : k \in 1..Len(dict_src)}

\* C10 (as stated): after construction, for every line w of the dictionary
\* source that is in the dictionary, every one-step variant of w is in the
\* dictionary.
C10_KeptWordHasEveryVariant ==
    phase = "ready" =>
        \A w \in DictLines \cap words : OneStepVariants(w) \subseteq words

\* C10 (amended): after construction, for every line w of the dictionary
\* source that is in the dictionary, every one-step variant of w is in the
\* dictionary unless the variant contains U+17AC and the words it is made of
\* are all loaded, in which case the load filter has removed it.
C10_KeptWordHasEveryUnfilteredVariant ==
    phase = "ready" =>
        \A w \in DictLines \cap words :
            \A v \in OneStepVariants(w) :
                v \in words \/ IsOrCompound(v, LoadedWords(dict_src))

C10_Witness ==
    /\ phase = "ready"
    /\ \E w \in DictLines \cap words :
          OneStepVariants(w) # {} /\ OneStepVariants(w) \subseteq words
    /\ \E w \in DictLines \cap words :
          \E v \in OneStepVariants(w) :
              v \notin words /\ IsOrCompound(v, LoadedWords(dict_src))

\* C11: in every constructed segmenter unknown_cost is default_cost + 5.0,
\* whether the frequency source is present, missing or an empty mapping.
C11_UnknownCostIsDefaultPlusFive ==
    phase = "ready" => unknown_cost = default_cost + UNKNOWN_OFFSET

\* C12: whenever segment runs on the segmenter (after construction, and after
\* or during any sequence of segment and derive_compound_frequency calls),
\* max_word_length is at least the length of every word in words.
C12_MaxWordLengthCoversWords ==
    (phase = "ready" /\ call[1].pc \notin {"idle", "done"})
        => \A word \in words : Len(word) <= max_word_length

\* C13: for every finite token list and every rule table, apply_rules
\* terminates: every loop iteration either shortens the list or advances i,
\* and i never becomes negative.
EngineShortens ==
    /\ Len(engine'.segments) = Len(engine.segments) - 1
    /\ engine'.i \in {engine.i, engine.i - 1}

EngineAdvances ==
    /\ engine'.segments = engine.segments
    /\ engine'.i = engine.i + 1

C13_ApplyRulesTerminates ==
    /\ [](engine.i >= 0)
    /\ [][(engine.pc = "loop" /\ engine'.pc = "loop")
             => (EngineShortens \/ EngineAdvances)]_vars
    /\ (engine.pc = "loop") ~> (engine.pc = "done")

C13_Witness ==
    /\ engine.pc = "done"
    /\ Len(rules) = 2
    /\ rules[1].action = "merge_prev" /\ rules[2].action = "merge_next"
    /\ Len(engine.segments) = 1
    /\ Len(engine.segments[1]) = 3

\* C14: segment returns the empty list for the empty string and whenever the
\* text left after normalization and U+200B removal has length 0 (the input
\* holds nothing but U+200B); then no DP array is built and no rule is
\* applied.
OnlyZWS(s) == \A k \in 1..Len(s) : s[k] = ZWS

C14_EmptyTextGivesEmptyList ==
    \A w \in Workers :
        call[w].pc # "idle" =>
            /\ (Len(StripZWS(Normalize(call[w].arg))) = 0) <=> OnlyZWS(call[w].arg)
            /\ OnlyZWS(call[w].arg) =>
                  /\ call[w].pc = "done"
                  /\ call[w].result = << >>
                  /\ call[w].dp = << >>
                  /\ call[w].segments = << >>

C14_Witness ==
    /\ call[1].pc = "done"
    /\ call[1].arg = << ZWS, ZWS >>
    /\ call[1].result = << >>
    /\ call[1].dp = << >>

\* C15: constructing a KhmerSegmenter with a dictionary path that does not
\* exist fails (FileNotFoundError) and yields no usable segmenter, whether or
\* not the frequency source exists.
C15_MissingDictionaryFailsConstruction ==
    ~dict_exists =>
        /\ phase \in {"new", "failed"}
        /\ words = {}
        /\ word_costs = EmptyCosts
        /\ \A w \in Workers : call[w].pc = "idle"

C15_Witness ==
    /\ phase = "failed"
    /\ ~dict_exists
    /\ freq_exists
    /\ Len(freq_data) = 2

\* C16: when the rule table is loaded, a rule whose regex trigger pattern is
\* malformed is skipped and every other rule of the table is still loaded, in
\* descending priority order; one malformed rule never empties the rule list.
WellFormed(rule) == ~(rule.trigger.type = "regex" /\ rule.trigger.compile # "ok")

C16_MalformedRuleIsSkipped ==
    (phase # "new" /\ rules_exists) =>
        /\ rules = SelectSeq(SortByPriorityDesc(rules_table), WellFormed)
        /\ \A k \in 1..(Len(rules) - 1) : rules[k].priority >= rules[k + 1].priority

\* C17: for every number of dictionary entries num_entries >= 1, the KDIC
\* table built by step_compile_kdict has a power-of-two table_size with
\* num_entries / table_size <= 0.70.
IsPowerOfTwo(n) == \E k \in 0..20 : n = 2 ^ k

C17_LoadFactorAtMostSeventyPercent ==
    kdict.pc = "sized" =>
        /\ IsPowerOfTwo(kdict.table_size)
        /\ 10 * kdict.num_entries <= 7 * kdict.table_size

\* C18 (as stated): for any input whose first code point is a dependent
\* vowel, the first token returned by segment is exactly that one code point,
\* whatever follows it.
C18_FirstTokenIsTheDependentVowel ==
    \A w \in Workers :
        (call[w].pc = "done" /\ Len(call[w].arg) > 0 /\ IsDepVowel(call[w].arg[1]))
            => call[w].result[1] = << call[w].arg[1] >>

\* C18 (amended): for any input whose first code point is a dependent vowel,
\* the text after normalization starts with a dependent vowel, the only edge
\* into position 1 is the repair edge (unknown_cost + 50.0 from position 0),
\* the first raw token of the DP is exactly that code point, and the first
\* returned token begins with it (rules and the unknown collapser may append
\* the tokens that follow).
C18_FirstRawTokenIsTheDependentVowel ==
    \A w \in Workers :
        (/\ call[w].pc \in {"backtrack", "rules", "collapse", "done"}
         /\ Len(call[w].arg) > 0
         /\ IsDepVowel(call[w].arg[1]))
            => /\ IsDepVowel(call[w].text[1])
               /\ call[w].dp[2] = [cost |-> unknown_cost + REPAIR_PENALTY, prev |-> 0]
               /\ call[w].pc = "rules" => call[w].segments[1] = << call[w].text[1] >>
               /\ call[w].pc = "done" => call[w].result[1][1] = call[w].text[1]

C18_Witness ==
    /\ call[1].pc = "done"
    /\ call[1].arg = << VOWEL_AA, 97 >>
    /\ call[1].dp[2].prev = 0
    /\ call[1].result = << << VOWEL_AA, 97 >> >>

\* C19: after the DP loop, for every position j in 0..n, dp[j].cost equals the
\* minimum total cost over all paths from 0 to j built from the edges the
\* segmenter defines (repair, number, separator, acronym, dictionary word,
\* unknown fallback), and the raw token sequence obtained by backtracking is
\* such a path of total cost dp[n].cost.
EdgesFrom(sg, t, i) ==
    IF ForceRepair(t, i)
    THEN {[to |-> i + 1, cost |-> sg.unknown_cost + REPAIR_PENALTY]}
    ELSE (IF IsDigitChar(t[i + 1]) \/ IsCurrencyStart(t, i)
          THEN {[to |-> i + NumberLength(t, i), cost |-> NUMBER_COST]}
          ELSE IF IsSeparatorChar(t[i + 1])
               THEN {[to |-> i + 1, cost |-> SEPARATOR_COST]}
               ELSE {})
         \cup (IF IsAcronymStart(t, i)
               THEN {[to |-> i + AcronymLength(t, i), cost |-> sg.default_cost]}
               ELSE {})
         \cup {[to |-> j, cost |-> GetWordCost(sg, Slice(t, i, j))] :
                 j \in {k \in (i + 1)..Min2(Len(t), i + sg.max_word_length) :
                          Slice(t, i, k) \in sg.words}}
         \cup (IF i + FallbackLength(t, i) <= Len(t)
               THEN {[to |-> i + FallbackLength(t, i), cost |-> FallbackCost(sg, t, i)]}
               ELSE {})
\* the edges the loop body (lines 487-587) offers at position i

MinOf(S) == IF S = {} THEN Inf ELSE CHOOSE x \in S : \A y \in S : x <= y

RECURSIVE BestCost(_, _, _)
BestCost(sg, t, j) ==
    IF j = 0 THEN 0
    ELSE MinOf(UNION {{BestCost(sg, t, i) + e.cost :
                         e \in {x \in EdgesFrom(sg, t, i) : x.to = j}} :
                      i \in {k \in 0..(j - 1) : BestCost(sg, t, k) < Inf}})
\* the least total cost of a path of edges from 0 to j, Inf when there is none

IsCheapestPath(sg, t, dp, segments) ==
    /\ Concat(segments) = t
    /\ \A k \in 1..Len(segments) :
          LET a == Len(Concat(SubSeq(segments, 1, k - 1)))
              b == Len(Concat(SubSeq(segments, 1, k)))
          IN  /\ a < b
              /\ dp[a + 1].cost < Inf
              /\ \E e \in EdgesFrom(sg, t, a) :
                    e.to = b /\ dp[b + 1].cost = dp[a + 1].cost + e.cost
\* every token is an edge, and the edge costs add up to dp[n].cost along it

C19_DPComputesCheapestPath ==
    \A w \in Workers :
        /\ call[w].pc = "backtrack" =>
              \A j \in 0..Len(call[w].text) :
                  call[w].dp[j + 1].cost = BestCost(Sg, call[w].text, j)
        /\ call[w].pc = "rules" =>
              IsCheapestPath(Sg, call[w].text, call[w].dp, call[w].segments)

C19_Witness ==
    /\ call[1].pc = "rules"
    /\ call[1].text = << KA, KA, VOWEL_AA >>
    /\ Cardinality(EdgesFrom(Sg, call[1].text, 0)) >= 2
    /\ call[1].segments = << << KA >>, << KA, VOWEL_AA >> >>
    /\ call[1].dp[4].cost = BestCost(Sg, call[1].text, 3)

\* C20: dp[j] is overwritten only by a strictly smaller cost; when two
\* candidate edges into j have equal total cost, the back pointer of the one
\* relaxed first is kept (edges are relaxed for increasing i, and for one i in
\* the order number-or-separator, acronym, dictionary words by increasing end
\* position, unknown fallback; all edges of one i carry the back pointer i).
AchievesCost(sg, t, dp, i, j) ==
    /\ dp[i + 1].cost < Inf
    /\ \E e \in EdgesFrom(sg, t, i) : e.to = j /\ dp[i + 1].cost + e.cost = dp[j + 1].cost
\* an edge from i enters j with the total cost that dp[j] holds

OverwrittenOnlyBySmallerCost(w) ==
    (call[w].pc = "dp" /\ call'[w].pc \in {"dp", "backtrack"}) =>
        \A j \in 1..Len(call[w].dp) :
            call'[w].dp[j] # call[w].dp[j] => call'[w].dp[j].cost < call[w].dp[j].cost

FirstRelaxedIsKept(w) ==
    call[w].pc = "backtrack" =>
        \A j \in 1..Len(call[w].text) :
            call[w].dp[j + 1].cost < Inf =>
                /\ AchievesCost(Sg, call[w].text, call[w].dp, call[w].dp[j + 1].prev, j)
                /\ \A i \in 0..(call[w].dp[j + 1].prev - 1) :
                      ~AchievesCost(Sg, call[w].text, call[w].dp, i, j)

C20_StrictImprovementAndFirstWins ==
    /\ [][\A w \in Workers : OverwrittenOnlyBySmallerCost(w)]_vars
    /\ [](\A w \in Workers : FirstRelaxedIsKept(w))

C20_Witness ==
    /\ call[1].pc = "backtrack"
    /\ call[1].text = << KA, KA, KA >>
    /\ AchievesCost(Sg, call[1].text, call[1].dp, 1, 3)
    /\ AchievesCost(Sg, call[1].text, call[1].dp, 2, 3)
    /\ call[1].dp[4].prev = 1

\* C21: at a reachable position i where text[i-1] is COENG (i > 0) or text[i]
\* is a dependent vowel, the DP relaxes exactly one edge, i -> i+1 with cost
\* unknown_cost + 50.0, and no number, separator, acronym, dictionary or
\* fallback edge from i; hence in the raw segmentation every token that starts
\* with a dependent vowel or starts right after a COENG has length 1.
RepairIsTheOnlyEdge(w) ==
    (/\ call[w].pc = "dp"
     /\ call'[w].pc \in {"dp", "backtrack"}
     /\ call[w].dp[call[w].i + 1].cost < Inf
     /\ \/ (call[w].i > 0 /\ call[w].text[call[w].i] = COENG)
        \/ IsDepVowel(call[w].text[call[w].i + 1]))
    => LET i == call[w].i
           new_cost == call[w].dp[i + 1].cost + unknown_cost + REPAIR_PENALTY
       IN  /\ \A j \in 0..Len(call[w].text) :
                 j # i + 1 => call'[w].dp[j + 1] = call[w].dp[j + 1]
           /\ call'[w].dp[i + 2] =
                 IF new_cost < call[w].dp[i + 2].cost
                 THEN [cost |-> new_cost, prev |-> i]
                 ELSE call[w].dp[i + 2]

RepairTokensHaveLengthOne(w) ==
    call[w].pc = "rules" =>
        \A k \in 1..Len(call[w].segments) :
            LET a == Len(Concat(SubSeq(call[w].segments, 1, k - 1)))
            IN  (\/ IsDepVowel(call[w].text[a + 1])
                 \/ (a > 0 /\ call[w].text[a] = COENG))
                    => Len(call[w].segments[k]) = 1

C21_RepairGateAllowsOnlyTheRepairEdge ==
    /\ [][\A w \in Workers : RepairIsTheOnlyEdge(w)]_vars
    /\ [](\A w \in Workers : RepairTokensHaveLengthOne(w))

C21_Witness ==
    /\ call[1].pc = "rules"
    /\ call[1].text = << COENG, KA, KA >>
    /\ << KA, KA >> \in words
    /\ call[1].dp[3] = [cost |-> call[1].dp[2].cost + unknown_cost + REPAIR_PENALTY,
                        prev |-> 1]
    /\ call[1].segments = << << COENG >>, << KA >>, << KA >> >>

\* C22: the normalizer partitions its input into clusters exactly as the
\* cluster classifier does: for every text and every cluster start i, the
\* cluster that normalize collects and sorts starting at i has length
\* cluster_len(text, i).
C22_NormalizerClustersMatchClassifier ==
    norm.pc # "idle" =>
        LET t == FixComposites(norm.input)
        IN  \A span \in ClusterSpans(t, 0, -1, {}) :
                span[2] - span[1] = KhmerClusterLength(t, span[1])

\* C23 (as stated): within each cluster of normalize's output the base stays
\* first and the modifiers are a stable sort of the input modifiers by the
\* priority COENG+X (X != Ro) = 1, COENG+Ro = 2, dependent vowel = 3, sign = 4,
\* anything else (including a COENG not followed by a base) = 5.
StatedPriority(item) ==
    IF Len(item) = 2 /\ item[1] = COENG
    THEN (IF item[2] = RO THEN 2 ELSE 1)
    ELSE IF IsDepVowel(item[1]) THEN 3
    ELSE IF item[1] # COENG /\ IsNormSign(item[1]) THEN 4
    ELSE 5

\* C23 (amended): the same table with a COENG that is not followed by a base
\* ranked 1.5, between the subscripts other than Ro and COENG+Ro.  Priorities
\* are doubled here so that 1.5 is the integer 3.
DoubledPriority(item) ==
    IF item[1] = COENG
    THEN (IF Len(item) = 2 THEN (IF item[2] = RO THEN 4 ELSE 2) ELSE 3)
    ELSE IF IsDepVowel(item[1]) THEN 6
    ELSE IF IsNormSign(item[1]) THEN 8
    ELSE 10

IsStableSortBy(Priority(_), parts, out) ==
    LET WithPriority(v) == SelectSeq(Tail(parts), LAMBDA item : Priority(item) = v)
    IN  out = parts[1] \o Concat([v \in 1..10 |-> Concat(WithPriority(v))])
\* out is the text of the items of parts with the first item first and the
\* others in non-decreasing priority (1..10), items of equal priority in
\* their order in parts

ClustersSortedBy(Priority(_)) ==
    norm.pc # "idle" =>
        LET t == FixComposites(norm.input)
        IN  /\ Len(norm.once) = Len(t)
            /\ \A span \in ClusterSpans(t, 0, -1, {}) :
                  IsStableSortBy(Priority,
                                 ClusterParts(t, span[1], span[2]),
                                 SubSeq(norm.once, span[1] + 1, span[2]))

C24_DPTextIsNormalized ==
    \A w \in Workers :
        call[w].pc \notin {"idle", "done"} =>
            /\ \A k \in 1..Len(call[w].text) : call[w].text[k] # ZWS
            /\ Normalize(call[w].text) = call[w].text

\* C25: the output of KhmerNormalizer.normalize, and therefore every line
\* written by step_normalize_corpus, contains no zero-width code point
\* U+200B, U+200C or U+200D.
C25_NormalizeOutputHasNoZeroWidth ==
    norm.pc # "idle" =>
        \A k \in 1..Len(norm.once) : norm.once[k] \notin {ZWS, ZWNJ, ZWJ}

\* C26: in each iteration of apply_rules at most one rule acts on the token at
\* index i, and it is the first rule in descending-priority order whose
\* trigger matches seg[i], whose checks all pass and whose action is
\* applicable (merge_next needs a next token, merge_prev a previous one); a
\* higher-priority rule whose merge is inapplicable does not block
\* lower-priority rules, and if no rule acts i advances by 1.
RuleCanAct(rule, segments, i) ==
    /\ TriggerMatches(Sg, rule.trigger, segments[i + 1])
    /\ \A c \in 1..Len(rule.checks) : CheckPasses(rule.checks[c], segments, i)
    /\ \/ rule.action = "merge_next" /\ i + 1 < Len(segments)
       \/ rule.action = "merge_prev" /\ i > 0
       \/ rule.action = "keep"

FirstActingRuleActs ==
    (engine.pc = "loop" /\ engine'.pc = "loop") =>
        LET segs == engine.segments
            i == engine.i
            acting == {k \in 1..Len(rules) : RuleCanAct(rules[k], segs, i)}
        IN  IF acting = {}
            THEN engine'.segments = segs /\ engine'.i = i + 1
            ELSE LET first == CHOOSE k \in acting : \A m \in acting : k <= m
                 IN  IF rules[first].action = "merge_next"
                     THEN /\ engine'.i = i
                          /\ engine'.segments =
                                SubSeq(segs, 1, i) \o << segs[i + 1] \o segs[i + 2] >>
                                    \o SubSeq(segs, i + 3, Len(segs))
                     ELSE IF rules[first].action = "merge_prev"
                     THEN /\ engine'.i = i - 1
                          /\ engine'.segments =
                                SubSeq(segs, 1, i - 1) \o << segs[i] \o segs[i + 1] >>
                                    \o SubSeq(segs, i + 2, Len(segs))
                     ELSE engine'.segments = segs /\ engine'.i = i + 1

C26_FirstApplicableRuleActs ==
    /\ [](\A k \in 1..(Len(rules) - 1) : rules[k].priority >= rules[k + 1].priority)
    /\ [][FirstActingRuleActs]_vars

C26_Witness ==
    /\ engine.pc = "done"
    /\ Len(rules) = 2
    /\ rules[1].action = "merge_prev" /\ rules[1].trigger.type = "regex"
    /\ rules[2].action = "merge_next" /\ rules[2].trigger.type = "regex"
    /\ engine.segments = << << DOLLAR, KA >> >>

\* C27: in apply_rules a check whose target token is absent (prev at i = 0,
\* next at the last index) fails whenever the check has exists = true or
\* carries a value check (a "check" or "value" key), including when exists is
\* false or unspecified; it passes only when it has neither, so a rule with
\* such a failing check never fires at that index.
TargetAbsent(check, segments, i) ==
    \/ check.target = "prev" /\ i = 0
    \/ check.target = "next" /\ i = Len(segments) - 1

FailsOnAbsentTarget(rule, segments, i) ==
    \E c \in 1..Len(rule.checks) :
        /\ TargetAbsent(rule.checks[c], segments, i)
        /\ \/ rule.checks[c].exists
           \/ rule.checks[c].check # "none"
           \/ rule.checks[c].has_value

AbsentTargetDecidesCheck ==
    (engine.pc = "loop" /\ engine.i < Len(engine.segments)) =>
        \A k \in 1..Len(rules) : \A c \in 1..Len(rules[k].checks) :
            LET check == rules[k].checks[c]
            IN  TargetAbsent(check, engine.segments, engine.i) =>
                    (CheckPasses(check, engine.segments, engine.i)
                        <=> ~(check.exists \/ check.check # "none" \/ check.has_value))

RuleWithFailingCheckNeverFires ==
    (engine.pc = "loop" /\ engine'.pc = "loop") =>
        LET others == SelectSeq(rules,
                          LAMBDA r : ~FailsOnAbsentTarget(r, engine.segments, engine.i))
            without == RuleLoop([Sg EXCEPT !.rules = others], engine.segments, engine.i, 1)
        IN  engine'.segments = without.segments /\ engine'.i = without.i
\* the iteration ends as if the rules with such a check were not in the table

C27_AbsentTargetFailsValueChecks ==
    /\ [](AbsentTargetDecidesCheck)
    /\ [][RuleWithFailingCheckNeverFires]_vars

C27_Witness ==
    /\ engine.pc = "done"
    /\ rules = << EnginePool[1] >>
    /\ rules[1].checks[1].target = "prev" /\ ~rules[1].checks[1].exists
    /\ rules[1].checks[1].check = "is_separator"
    /\ engine.segments = << << KA >>, << KA, KA >> >>

\* C28: in segment's final output no two adjacent tokens are both unknown,
\* where a token is known iff its first code point is a digit, or it is a
\* dictionary word, or it is a single valid base character, or it is a single
\* separator character, or it has at least 2 code points and contains '.';
\* every maximal run of unknown tokens coming out of the rule engine is
\* emitted as one concatenated token in its original position.
KnownToken(seg) ==
    \/ IsDigitChar(seg[1])
    \/ seg \in words
    \/ (Len(seg) = 1 /\ IsValidSingleBaseChar(seg[1]))
    \/ (Len(seg) = 1 /\ IsSeparatorChar(seg[1]))
    \/ (Len(seg) >= 2 /\ \E k \in 1..Len(seg) : seg[k] = DOT)

OffsetBefore(tokens, k) == Len(Concat(SubSeq(tokens, 1, k - 1)))

UnknownRunsCollapsed(segs, out) ==
    /\ Concat(out) = Concat(segs)
    /\ TokenBoundaries(out) \subseteq TokenBoundaries(segs)
    /\ \A k \in 1..Len(segs) :
          KnownToken(segs[k]) =>
              \E m \in 1..Len(out) :
                  out[m] = segs[k] /\ OffsetBefore(out, m) = OffsetBefore(segs, k)
    /\ \A k \in 1..(Len(segs) - 1) :
          (~KnownToken(segs[k]) /\ ~KnownToken(segs[k + 1]))
              => OffsetBefore(segs, k + 1) \notin TokenBoundaries(out)
    /\ \A m \in 1..(Len(out) - 1) : KnownToken(out[m]) \/ KnownToken(out[m + 1])

C28_UnknownRunsAreCollapsed ==
    \A w \in Workers :
        call[w].pc = "done" => UnknownRunsCollapsed(call[w].segments, call[w].result)

C28_Witness ==
    /\ call[1].pc = "done"
    /\ Len(call[1].segments) = 3
    /\ ~KnownToken(call[1].segments[1])
    /\ ~KnownToken(call[1].segments[2])
    /\ KnownToken(call[1].segments[3])
    /\ call[1].result =
           << call[1].segments[1] \o call[1].segments[2], call[1].segments[3] >>

\* C29: after construction the dictionary, including every generated
\* variant, contains no word with the repetition mark U+17D7, no word
\* beginning with U+17D2, and no length-1 word other than a base consonant
\* or independent vowel (U+1780..U+17B3).
AdmissibleWord(w) ==
    /\ \A k \in 1..Len(w) : w[k] # 6103
    /\ Len(w) >= 1 => w[1] # 6098
    /\ Len(w) = 1 => (6016 <= w[1] /\ w[1] <= 6067)

C29_DictionaryHoldsOnlyAdmissibleWords ==
    phase = "ready" => \A w \in words : AdmissibleWord(w)

C29_Witness ==
    /\ phase = "ready"
    /\ DictLines = { << KA, COENG, TA, REPEAT_MARK >>, << COENG, KA >> }
    /\ << KA, COENG, DA, REPEAT_MARK >> \in LoadedWords(dict_src)
    /\ words = {}

(***************************************************************************)
(* SpecOrLoad: construction over dictionary files whose lines hold U+17AC  *)
(* at the start, in the middle and doubled, next to lines that the load    *)
(* filter removes for another reason.                                      *)
(***************************************************************************)
OrPool ==
    { << KA >>,
      << COENG, KA >>,
      << OR_VOWEL, COENG, KA >>,
      << KA, OR_VOWEL, KA >>,
      << OR_VOWEL, KA, OR_VOWEL, KA >>,
      << OR_VOWEL, OR_VOWEL >> }
OrSources == {LinesOf(S) : S \in {T \in SUBSET OrPool : Cardinality(T) <= MaxDictLines}}

InitOrLoad ==
    /\ InitNew
    /\ dict_exists \in BOOLEAN
    /\ dict_src \in (IF dict_exists THEN OrSources ELSE {<< >>})
    /\ freq_exists \in BOOLEAN
    /\ freq_data \in (IF freq_exists THEN FreqTables ELSE {<< >>})
    /\ \E rf \in RuleFiles : rules_exists = rf.exists /\ rules_table = rf.table

SpecOrLoad == InitOrLoad /\ [][NextLoad]_vars

\* C30: a dictionary entry of more than one code point that contains U+17AC
\* and that no other load filter removes (no U+17D7, no leading U+17D2) is
\* absent from the dictionary after construction exactly when every
\* non-empty part left after splitting it on U+17AC is a word of the final
\* dictionary.
NonEmptyPartsAreWords(w) ==
    LET parts == SplitOn(w, OR_VOWEL)
    IN  \A k \in 1..Len(parts) : parts[k] = << >> \/ parts[k] \in words

C30_OrCompoundDroppedIffPartsInDictionary ==
    phase = "ready" =>
        \A w \in DictLines :
            (/\ Len(w) > 1
             /\ Contains(w, OR_VOWEL)
             /\ ~Contains(w, REPEAT_MARK)
             /\ ~StartsWith(w, COENG))
                => ((w \notin words) <=> NonEmptyPartsAreWords(w))

====
